---- MODULE Spec2Model ----
(***************************************************************************)
(* Model of the audio cue hook (useSound) of the repository:               *)
(* the module-level audio context, createOscillator, playAmigaDiskSound,   *)
(* and the playSound / toggleSound callbacks of every useSound() instance. *)
(*                                                                         *)
(* Units: the clock `now` stands for both the timer clock and              *)
(* audioContext.currentTime, in milliseconds (0.3 s is 300); gain values   *)
(* are in thousandths (0.2 is 200, 0.01 is 10).                            *)
(***************************************************************************)
EXTENDS Integers, Sequences, FiniteSets, TLC

VARIABLES hostAudio, moduleState, audioContext, contexts, isEnabled, ifaces,
          now, timers, tones, calls, toggles, probe

vars == <<hostAudio, moduleState, audioContext, contexts, isEnabled, ifaces,
          now, timers, tones, calls, toggles, probe>>

\* ---------------------------------------------------------------- bounds
NumHooks == 2
MaxCalls == 2
MaxToggles == 2
Hooks == 1..NumHooks

\* ------------------------------------------------------- program constants
SoundTypes == {"login", "error", "keypress", "search", "logout", "diskRead"}

\* an event name outside the SoundType union (reachable from untyped callers)
OtherTypes == {"bogus"}

frequencies == <<800, 1000, 600, 900, 700, 850, 750, 950>>

loginFrequencies == <<440, 550, 660>>

searchFrequencies == <<400, 600>>

PeakGain == 200

FloorGain == 10

\* ------------------------------------------------------------ tone factory
\* (variant: a fresh audio context for every tone)
createOscillator_OwnContext(frequency, duration, type) ==
  [ ctx        |-> audioContext + Cardinality(tones) + 1,
    connected  |-> <<"oscillator", "gain", "destination">>,
    wave       |-> type,
    freq       |-> frequency,
    dur        |-> duration,
    createdAt  |-> now,
    freqEvents |-> << [kind |-> "set", value |-> frequency, at |-> now] >>,
    gainEvents |-> << [kind |-> "set", value |-> PeakGain, at |-> now],
                      [kind |-> "expRamp", value |-> FloorGain, at |-> now + duration] >>,
    started    |-> 0,
    stops      |-> << >> ]

\* (variant: the ramp's end time given as the duration, not as a clock time)
createOscillator_RampAtDuration(frequency, duration, type) ==
  [ ctx        |-> audioContext,
    connected  |-> <<"oscillator", "gain", "destination">>,
    wave       |-> type,
    freq       |-> frequency,
    dur        |-> duration,
    createdAt  |-> now,
    freqEvents |-> << [kind |-> "set", value |-> frequency, at |-> now] >>,
    gainEvents |-> << [kind |-> "set", value |-> PeakGain, at |-> now],
                      [kind |-> "expRamp", value |-> FloorGain, at |-> duration] >>,
    started    |-> 0,
    stops      |-> << >> ]

\* createOscillator(frequency, duration, type): the oscillator/gain pair
\* built from the module's audioContext at clock time `now`.
createOscillator(frequency, duration, type) ==
  [ ctx        |-> audioContext,
    connected  |-> <<"oscillator", "gain", "destination">>,
    wave       |-> type,
    freq       |-> frequency,
    dur        |-> duration,
    createdAt  |-> now,
    freqEvents |-> << [kind |-> "set", value |-> frequency, at |-> now] >>,
    gainEvents |-> << [kind |-> "set", value |-> PeakGain, at |-> now],
                      [kind |-> "expRamp", value |-> FloorGain, at |-> now + duration] >>,
    started    |-> 0,
    stops      |-> << >> ]

\* oscillator.start()
start(osc) == [osc EXCEPT !.started = @ + 1]

\* oscillator.stop(when)
stop(osc, when) == [osc EXCEPT !.stops = Append(@, when)]

\* (variant: the glide left out)
linearRampToValueAtTime_Dropped(osc, value, when) == osc

\* oscillator.frequency.linearRampToValueAtTime(value, when)
linearRampToValueAtTime(osc, value, when) ==
  [osc EXCEPT !.freqEvents = Append(@, [kind |-> "linRamp", value |-> value, at |-> when])]

\* (variant: the stop scheduled at the current time, the duration left out)
PlayTone_StopNow(frequency, duration, type) ==
  stop(start(createOscillator(frequency, duration, type)), now)

\* the create / start / stop triple every call site performs
PlayTone(frequency, duration, type) ==
  stop(start(createOscillator(frequency, duration, type)), now + duration)

\* bookkeeping: which playSound call and which recipe entry a tone came from
Tag(c, i, delay, osc) == [call |-> c, idx |-> i, delay |-> delay] @@ osc

\* ------------------------------------------------------------------ timers
\* window.setTimeout(callback, delay): the callback's closure is (freq, dur, wave)
Timer(c, i, frequency, duration, type, delay) ==
  [call |-> c, idx |-> i, due |-> now + delay, delay |-> delay,
   freq |-> frequency, dur |-> duration, wave |-> type]

\* (variant: a timer table keyed by due time, a later entry replacing an earlier one)
SetTimeouts_Keyed(table, batch) ==
  { t \in table : t.due \notin { b.due : b \in batch } } \cup batch

\* (variant: a new cue cancelling the timers still pending)
SetTimeouts_Replace(table, batch) == batch

\* the timer table after a batch of setTimeout registrations
SetTimeouts(table, batch) == table \cup batch

\* (variant: delays counted from 1 instead of 0)
playAmigaDiskSound_FromOne(c) ==
  { Timer(c, i, frequencies[i], 100, "square", i * 180) : i \in 1..Len(frequencies) }

\* playAmigaDiskSound(): eight timers at i * 180 ms
playAmigaDiskSound(c) ==
  { Timer(c, i, frequencies[i], 100, "square", (i - 1) * 180) : i \in 1..Len(frequencies) }

\* the timers one playSound(type) call registers
ScheduledBy(c, type) ==
  CASE type = "diskRead" -> playAmigaDiskSound(c)
    [] type = "login" ->
         { Timer(c, i, loginFrequencies[i], 300, "sine", (i - 1) * 100) : i \in 1..Len(loginFrequencies) }
    [] type = "search" ->
         { Timer(c, i, searchFrequencies[i], 100, "sine", (i - 1) * 150) : i \in 1..Len(searchFrequencies) }
    [] OTHER -> {}

\* (variant: the first login note played at once instead of through a timer)
SyncTones_LoginFirstNote(c, type) ==
  CASE type = "error"    -> { PlayTone(150, 300, "sawtooth") }
    [] type = "keypress" -> { PlayTone(800, 50, "sine") }
    [] type = "login"    -> { PlayTone(440, 300, "sine") }
    [] type = "logout"   ->
         { stop(start(linearRampToValueAtTime(createOscillator(440, 500, "sine"), 110, now + 500)),
                now + 500) }
    [] OTHER -> {}

\* the tones one playSound(type) call creates before it returns
SyncTones(c, type) ==
  CASE type = "error"    -> { PlayTone(150, 300, "sawtooth") }
    [] type = "keypress" -> { PlayTone(800, 50, "sine") }
    [] type = "logout"   ->
         { stop(start(linearRampToValueAtTime(createOscillator(440, 500, "sine"), 110, now + 500)),
                now + 500) }
    [] OTHER -> {}

\* (variant: playSound without the early return)
GateOpen_Always(h) == TRUE

\* the check at the top of playSound
GateOpen(h) == isEnabled[h]

\* (variant: toggleSound that only ever mutes)
Negated_Mute(h) == FALSE

\* the value toggleSound stores
Negated(h) == ~isEnabled[h]

\* (variant: a callback that consults the caller's flag when it runs)
TimerCallback_Gated(t) ==
  IF isEnabled[calls[t.call].hook] THEN { PlayTone(t.freq, t.dur, t.wave) } ELSE {}

\* what a timer callback does when it runs
TimerCallback(t) == { PlayTone(t.freq, t.dur, t.wave) }

\* no direct call of createOscillator is in progress
NoProbe == [state |-> "none"]

\* timers fire in order of due time, ties in order of registration
Before(a, b) ==
  \/ a.due < b.due
  \/ a.due = b.due /\ a.call < b.call
  \/ a.due = b.due /\ a.call = b.call /\ a.idx < b.idx

\* (variant: a scheduler that runs pending callbacks in any order)
NextTimer_Any(t) == t \in timers

NextTimer(t) == t \in timers /\ t.due <= now /\ \A u \in timers \ {t} : Before(t, u)

\* component h holds an interface object (it has rendered at least once)
HasIface(h) == ifaces[h] # << >>

\* toggleSound calls made so far through hook instance h
ToggleCount(h) == Cardinality({ k \in 1..Len(toggles) : toggles[k].hook = h })

\* playSound calls that still have a timer pending
PendingCalls == { t.call : t \in timers }

\* ------------------------------------------- createOscillator called directly
\* a JavaScript number: finite with a value, or one of the non-finite ones
Finite(v) == [kind |-> "finite", value |-> v]

NaN == [kind |-> "NaN", value |-> 0]

Infinity == [kind |-> "Infinity", value |-> 0]

IsFinite(x) == x.kind = "finite"

\* arguments tried on createOscillator
ProbeFrequencies == { Finite(440), Finite(150), Finite(0), Finite(-440), NaN, Infinity }

ProbeDurations == { Finite(300), Finite(50), Finite(0), Finite(-300), NaN, Infinity }

OscillatorTypes == { "sine", "square", "sawtooth", "triangle" }

ProbeTimes == { 0, 100 }

\* lines 31-37: both nodes exist and are connected, nothing is scheduled yet
NodesOnly(f, d, type) ==
  [createOscillator(f.value, d.value, type) EXCEPT !.freqEvents = << >>, !.gainEvents = << >>]

\* lines 31-40: the frequency and the peak gain are set, the ramp is not
WithoutRamp(f, d, type) ==
  [createOscillator(f.value, d.value, type) EXCEPT !.gainEvents = SubSeq(@, 1, 1)]

\* the ways a createOscillator(f, d, type) call can end. The host's AudioParam
\* methods throw on a non-finite argument; what the host does with a finite
\* frequency or duration that is not positive is its own choice (it may clamp
\* and accept, or reject), so both ends are possible there.
createOscillatorOutcomes(f, d, type) ==
  IF ~IsFinite(f)
    THEN { [state |-> "threw", graph |-> << NodesOnly(f, d, type) >>] }
  ELSE IF ~IsFinite(d)
    THEN { [state |-> "threw", graph |-> << WithoutRamp(f, d, type) >>] }
  ELSE IF f.value > 0 /\ d.value > 0
    THEN { [state |-> "returned", graph |-> << createOscillator(f.value, d.value, type) >>] }
  ELSE { [state |-> "returned", graph |-> << createOscillator(f.value, d.value, type) >>] }
       \cup (IF f.value <= 0
               THEN { [state |-> "threw", graph |-> << NodesOnly(f, d, type) >>] } ELSE {})
       \cup (IF d.value <= 0
               THEN { [state |-> "threw", graph |-> << WithoutRamp(f, d, type) >>] } ELSE {})

\* ---------------------------------------------------------------- actions
Init ==
  /\ hostAudio \in BOOLEAN
  /\ moduleState = "unloaded"
  /\ audioContext = 0
  /\ contexts = {}
  /\ isEnabled = [h \in Hooks |-> TRUE]
  /\ ifaces = [h \in Hooks |-> << >>]
  /\ now = 0
  /\ timers = {}
  /\ tones = {}
  /\ calls = << >>
  /\ toggles = << >>
  /\ probe = NoProbe

\* evaluation of the module: const audioContext = new (window.AudioContext || ...)()
LoadModule ==
  /\ moduleState = "unloaded"
  /\ IF hostAudio
       THEN /\ audioContext' = Cardinality(contexts) + 1
            /\ contexts' = contexts \cup {Cardinality(contexts) + 1}
            /\ moduleState' = "loaded"
       ELSE /\ moduleState' = "failed"
            /\ UNCHANGED <<audioContext, contexts>>
  /\ UNCHANGED <<hostAudio, isEnabled, ifaces, now, timers, tones, calls, toggles, probe>>

\* (variant: an interface object that always reports the initial value)
Snapshot_Initial(h) == TRUE

\* the isEnabled member of the object useSound() returns: isEnabled.current
Snapshot(h) == isEnabled[h]

\* a component instance h calls useSound() and gets { playSound, toggleSound, isEnabled };
\* obtainedAfter notes how many toggles of h had been made by then
UseSound(h) ==
  /\ moduleState = "loaded"
  /\ ifaces' = [ifaces EXCEPT ![h] =
                  << [isEnabled |-> Snapshot(h), obtainedAfter |-> ToggleCount(h)] >>]
  /\ UNCHANGED <<hostAudio, moduleState, audioContext, contexts, isEnabled, now,
                 timers, tones, calls, toggles, probe>>

\* (variant: the logout cue switching the sound off behind it)
FlagAfterPlay_LogoutMutes(h, type) ==
  IF type = "logout" THEN [isEnabled EXCEPT ![h] = FALSE] ELSE isEnabled

\* the flags when playSound(type) of hook h returns: the callback only reads
\* isEnabled.current
FlagAfterPlay(h, type) == isEnabled

PlaySound(h, type) ==
  /\ moduleState = "loaded"
  /\ HasIface(h)
  /\ Len(calls) < MaxCalls
  /\ LET c == Len(calls) + 1
         rec == [hook |-> h, type |-> type, enabled |-> isEnabled[h],
                 flags |-> isEnabled, at |-> now, threw |-> FALSE]
     IN /\ calls' = Append(calls, rec)
        /\ IF GateOpen(h)
             THEN /\ timers' = SetTimeouts(timers, ScheduledBy(c, type))
                  /\ tones' = tones \cup
                       { Tag(c, 1, 0, o) : o \in SyncTones(c, type) }
             ELSE UNCHANGED <<timers, tones>>
  /\ isEnabled' = FlagAfterPlay(h, type)
  /\ UNCHANGED <<hostAudio, moduleState, audioContext, contexts, ifaces,
                 now, toggles, probe>>

ToggleSound(h) ==
  /\ moduleState = "loaded"
  /\ HasIface(h)
  /\ Len(toggles) < MaxToggles
  /\ isEnabled' = [isEnabled EXCEPT ![h] = Negated(h)]
  /\ toggles' = Append(toggles, [hook |-> h, before |-> isEnabled[h], ret |-> isEnabled'[h],
                                 pending |-> PendingCalls])
  /\ UNCHANGED <<hostAudio, moduleState, audioContext, contexts, ifaces, now,
                 timers, tones, calls, probe>>

FireTimer ==
  /\ \E t \in timers :
       /\ NextTimer(t)
       /\ timers' = timers \ {t}
       /\ tones' = tones \cup { Tag(t.call, t.idx, t.delay, o) : o \in TimerCallback(t) }
  /\ UNCHANGED <<hostAudio, moduleState, audioContext, contexts, isEnabled, ifaces,
                 now, calls, toggles, probe>>

Min(S) == CHOOSE x \in S : \A y \in S : x <= y

\* scheduled oscillator.stop() instants
StopTimes == UNION { { o.stops[k] : k \in 1..Len(o.stops) } : o \in tones }

\* instants at which the clock is observed: those at which a timer is due and,
\* once no timer is pending, those at which a tone stops
NextTimes ==
  { x \in (IF timers # {} THEN { t.due : t \in timers } ELSE StopTimes) : x > now }

\* the clock moves on once every timer that is due has run
AdvanceClock ==
  /\ \A t \in timers : t.due > now
  /\ NextTimes # {}
  /\ now' = Min(NextTimes)
  /\ UNCHANGED <<hostAudio, moduleState, audioContext, contexts, isEnabled, ifaces,
                 timers, tones, calls, toggles, probe>>

Next ==
  \/ LoadModule
  \/ \E h \in Hooks : UseSound(h)
  \/ \E h \in Hooks, type \in SoundTypes \cup OtherTypes : PlaySound(h, type)
  \/ \E h \in Hooks : ToggleSound(h)
  \/ FireTimer
  \/ AdvanceClock

Spec == Init /\ [][Next]_vars

\* the host runs a due timer callback eventually, and its clocks keep going
FairSpec == Spec /\ WF_vars(FireTimer) /\ WF_vars(AdvanceClock)

\* createOscillator on its own: the module is loaded and the function is called
\* once with arguments drawn from the probe sets
InitTone ==
  /\ hostAudio = TRUE
  /\ moduleState = "loaded"
  /\ audioContext = 1
  /\ contexts = {1}
  /\ isEnabled = [h \in Hooks |-> TRUE]
  /\ ifaces = [h \in Hooks |-> << >>]
  /\ now \in ProbeTimes
  /\ timers = {}
  /\ tones = {}
  /\ calls = << >>
  /\ toggles = << >>
  /\ probe \in [ state : {"ready"}, frequency : ProbeFrequencies,
                  duration : ProbeDurations, type : OscillatorTypes, graph : { << >> } ]

CallCreateOscillator ==
  /\ probe.state = "ready"
  /\ \E r \in createOscillatorOutcomes(probe.frequency, probe.duration, probe.type) :
       probe' = [probe EXCEPT !.state = r.state, !.graph = r.graph]
  /\ UNCHANGED <<hostAudio, moduleState, audioContext, contexts, isEnabled, ifaces,
                 now, timers, tones, calls, toggles>>

NextTone == CallCreateOscillator

SpecTone == InitTone /\ [][NextTone]_vars

TypeOK ==
  /\ moduleState \in {"unloaded", "loaded", "failed"}
  /\ isEnabled \in [Hooks -> BOOLEAN]
  /\ Len(calls) <= MaxCalls

\* ================================================================ properties
CallIds == 1..Len(calls)

TonesOf(c) == { o \in tones : o.call = c }

TimersOf(c) == { t \in timers : t.call = c }

Entry(f, d, w, delay) == [freq |-> f, dur |-> d, wave |-> w, delay |-> delay]

\* the cue table as documented: (frequency Hz, duration ms, waveform, delay ms)
Documented(type) ==
  CASE type = "login"    -> { Entry(440, 300, "sine", 0), Entry(550, 300, "sine", 100),
                              Entry(660, 300, "sine", 200) }
    [] type = "error"    -> { Entry(150, 300, "sawtooth", 0) }
    [] type = "keypress" -> { Entry(800, 50, "sine", 0) }
    [] type = "search"   -> { Entry(400, 100, "sine", 0), Entry(600, 100, "sine", 150) }
    [] type = "logout"   -> { Entry(440, 500, "sine", 0) }
    [] type = "diskRead" -> { Entry(800, 100, "square", 0), Entry(1000, 100, "square", 180),
                              Entry(600, 100, "square", 360), Entry(900, 100, "square", 540),
                              Entry(700, 100, "square", 720), Entry(850, 100, "square", 900),
                              Entry(750, 100, "square", 1080), Entry(950, 100, "square", 1260) }
    [] OTHER -> {}

\* a tone as a table entry, its delay being the distance of its creation from
\* the start of its own call
AsEntry(o) == Entry(o.freq, o.dur, o.wave, o.createdAt - calls[o.call].at)

Played(o) == o.started = 1 /\ o.stops = << o.createdAt + o.dur >>

\* the step just taken was a playSound call that found the flag false
DisabledPlayStep ==
  /\ Len(calls') = Len(calls) + 1
  /\ ~calls'[Len(calls')].enabled

\* C1: a playSound call made while the flag of its hook is false registers no
\* timer, creates no node, starts no tone and leaves the flag as it was, and no
\* tone of that call ever appears later.
C1_DisabledPlayIsNoOp ==
  /\ [](\A c \in CallIds : ~calls[c].enabled => TonesOf(c) = {} /\ TimersOf(c) = {})
  /\ [][DisabledPlayStep =>
          timers' = timers /\ tones' = tones /\ isEnabled' = isEnabled]_vars

C1_Witness ==
  \E c \in CallIds :
    /\ ~calls[c].enabled /\ calls[c].type \in SoundTypes
    /\ \E d \in CallIds : calls[d].hook = calls[c].hook /\ TonesOf(d) # {}

\* C2: one enabled playSound call of a built-in cue yields, once its timers have
\* fired, exactly the documented tones (frequency, duration, waveform, delay from
\* the start of the call), and never a tone outside them.
C2_DocumentedTones ==
  \A c \in CallIds :
    (calls[c].enabled /\ calls[c].type \in SoundTypes) =>
      /\ { AsEntry(o) : o \in TonesOf(c) } \subseteq Documented(calls[c].type)
      /\ \A o \in TonesOf(c) : o.delay = o.createdAt - calls[c].at
      /\ TimersOf(c) = {} =>
           /\ { AsEntry(o) : o \in TonesOf(c) } = Documented(calls[c].type)
           /\ Cardinality(TonesOf(c)) = Cardinality(Documented(calls[c].type))

C2_Witness ==
  \E c \in CallIds :
    /\ calls[c].enabled /\ calls[c].type = "diskRead"
    /\ TimersOf(c) = {}
    /\ Cardinality(TonesOf(c)) = 8

\* C3: the flag of a hook starts true, each toggleSound negates it and returns
\* the new value, so the flag is true exactly after an even number of toggles and
\* two consecutive toggles restore the earlier value.
C3_TogglePairs ==
  /\ \A h \in Hooks : isEnabled[h] = (ToggleCount(h) % 2 = 0)
  /\ \A k \in 1..Len(toggles) : toggles[k].ret = ~toggles[k].before
  /\ \A j, k \in 1..Len(toggles) :
       (j < k /\ toggles[j].hook = toggles[k].hook
          /\ \A m \in (j+1)..(k-1) : toggles[m].hook # toggles[j].hook)
       => toggles[k].before = toggles[j].ret /\ toggles[k].ret = toggles[j].before
  /\ \A h \in Hooks :
       ToggleCount(h) > 0 =>
         isEnabled[h] = toggles[CHOOSE k \in 1..Len(toggles) :
                                  /\ toggles[k].hook = h
                                  /\ \A m \in (k+1)..Len(toggles) : toggles[m].hook # h].ret

C3_Witness ==
  \E h \in Hooks : ToggleCount(h) = 2 /\ isEnabled[h]

\* C4: a toggle affects only later calls: a call made while enabled whose timers
\* were still pending when the flag went false ends with every entry created,
\* started and stopped; a call made while disabled has no tone even after the
\* flag is toggled back to true.
C4_ToggleOnlyAffectsLaterCalls ==
  /\ \A k \in 1..Len(toggles) : \A c \in toggles[k].pending :
       (toggles[k].hook = calls[c].hook /\ ~toggles[k].ret) =>
         /\ Cardinality(TonesOf(c)) + Cardinality(TimersOf(c)) =
              Cardinality(Documented(calls[c].type))
         /\ \A o \in TonesOf(c) : Played(o)
  /\ \A c \in CallIds :
       (~calls[c].enabled /\ isEnabled[calls[c].hook]) =>
         TonesOf(c) = {} /\ TimersOf(c) = {}

\* a call that had a timer pending when its flag went false and has none now
\* (so that timer ran after the toggle), next to a disabled call whose flag is
\* true again
C4_Witness ==
  /\ \E k \in 1..Len(toggles) : \E c \in toggles[k].pending :
       /\ toggles[k].hook = calls[c].hook /\ ~toggles[k].ret
       /\ TimersOf(c) = {}
       /\ TonesOf(c) # {}
  /\ \E c \in CallIds : ~calls[c].enabled /\ isEnabled[calls[c].hook]

\* C5: two enabled playSound calls for different cues, their timers interleaved,
\* end with exactly the union of the two recipes, every tone carrying its own
\* frequency, duration, waveform and delay relative to its own call.
C5_OverlappingCallsUnion ==
  \A c, d \in CallIds :
    ( /\ c # d /\ calls[c].enabled /\ calls[d].enabled
      /\ calls[c].type \in SoundTypes /\ calls[d].type \in SoundTypes
      /\ calls[c].type # calls[d].type
      /\ TimersOf(c) = {} /\ TimersOf(d) = {} )
    =>
      LET both == TonesOf(c) \cup TonesOf(d)
      IN /\ Cardinality(both) =
              Cardinality(Documented(calls[c].type)) + Cardinality(Documented(calls[d].type))
         /\ { <<o.call, AsEntry(o)>> : o \in both } =
              { <<c, e>> : e \in Documented(calls[c].type) } \cup
              { <<d, e>> : e \in Documented(calls[d].type) }
         /\ \A o \in both : Played(o)

C5_Witness ==
  \E c, d \in CallIds :
    /\ c < d /\ calls[c].enabled /\ calls[d].enabled
    /\ calls[c].type = "login" /\ calls[d].type = "search"
    /\ calls[d].at = calls[c].at + 100
    /\ TimersOf(c) = {} /\ TimersOf(d) = {}

\* C6: the enabled flag is one process-wide boolean: once a toggleSound of any
\* useSound() object has set it false, playSound of any useSound() object
\* schedules nothing until a toggle sets it back.
C6_ProcessWideGate ==
  \A c \in CallIds :
    (\E g \in Hooks : ~calls[c].flags[g]) => TonesOf(c) = {} /\ TimersOf(c) = {}

\* C7: playSound called while enabled with a name outside the six cues fails
\* with an error reported to the caller, and registers and creates nothing.
C7_UnknownCueFailsFast ==
  \A c \in CallIds :
    (calls[c].enabled /\ calls[c].type \notin SoundTypes) =>
      calls[c].threw /\ TonesOf(c) = {} /\ TimersOf(c) = {}

\* C9: on a host without an audio capability the failure stays inside the audio
\* core: the hook is there and playSound / toggleSound complete without raising.
C9_SilentWithoutHostAudio ==
  (~hostAudio /\ moduleState # "unloaded") => moduleState = "loaded"

ValidToneParameter(x) == IsFinite(x) /\ x.value > 0

NthToggle(h, n) ==
  CHOOSE k \in 1..Len(toggles) :
    /\ toggles[k].hook = h
    /\ Cardinality({ j \in 1..k : toggles[j].hook = h }) = n

\* the value the flag of h had once n toggles of h had been made
FlagAfter(h, n) == IF n = 0 THEN TRUE ELSE toggles[NthToggle(h, n)].ret

\* C11: the isEnabled member of an interface object equals the flag's value at
\* the moment the object was obtained and is not changed by later toggleSound
\* calls; only an object obtained after a toggle shows the new value.
C11_SnapshotNotLive ==
  /\ [](\A h \in Hooks : ifaces[h] # << >> =>
          ifaces[h][1].isEnabled = FlagAfter(h, ifaces[h][1].obtainedAfter))
  /\ [][isEnabled' # isEnabled => ifaces' = ifaces]_vars

\* an object obtained after the first toggle (it reports false) still held after
\* the second one, when the flag is true again
C11_Witness ==
  \E h \in Hooks :
    /\ ifaces[h] # << >>
    /\ ifaces[h][1].obtainedAfter = 1 /\ ToggleCount(h) = 2
    /\ ~ifaces[h][1].isEnabled /\ isEnabled[h]

\* C12: within one playSound call tones are created in non-decreasing order of
\* their recipe delay: no entry is created while an entry of the same call with
\* a smaller delay is still waiting, whatever other calls and toggles do.
C12_CreatedInDelayOrder ==
  \A c \in CallIds : \A o \in TonesOf(c) :
    /\ \A t \in TimersOf(c) : o.delay <= t.delay
    /\ \A q \in TonesOf(c) : o.delay < q.delay => o.createdAt <= q.createdAt

\* a finished login call with a tone of another call created between its first
\* and last tone, and a toggle made
C12_Witness ==
  \E c, d \in CallIds :
    /\ c # d /\ calls[c].type = "login" /\ TimersOf(c) = {}
    /\ Cardinality(TonesOf(c)) = 3
    /\ \E o \in TonesOf(d) : calls[c].at < o.createdAt /\ o.createdAt < calls[c].at + 200
    /\ toggles # << >>

\* C13: between callbacks every created tone has been started exactly once and
\* has exactly one stop, scheduled at its creation time plus its duration, the
\* instant its gain ramp ends; a tone is never started again or restarted.
C13_StartedOnceStoppedOnce ==
  /\ [](\A o \in tones :
          /\ o.started = 1
          /\ Len(o.stops) = 1
          /\ o.stops[1] = o.createdAt + o.dur
          /\ o.gainEvents[Len(o.gainEvents)].at = o.stops[1])
  /\ [][\A o \in tones : o \in tones']_vars

\* tones of a timer callback and of a single-tone cue side by side, one of them
\* already past its stop
C13_Witness ==
  /\ \E o \in tones : calls[o.call].type = "logout"
  /\ \E o \in tones : calls[o.call].type = "login" /\ o.idx = 3 /\ now >= o.stops[1]

\* tones started and not yet at their stop time
LiveTones == { o \in tones : \E k \in 1..Len(o.stops) : o.stops[k] > now }

Quiet == timers = {} /\ LiveTones = {}

\* C14: no operation of the core removes a pending timer without running it or
\* touches a tone once created, and with timers firing fairly every scheduled
\* entry becomes a started and stopped tone and the system comes back to a
\* state with no pending timer and no live tone.
C14_RunsToCompletion ==
  /\ [][\A t \in timers :
          \/ t \in timers'
          \/ \E o \in tones' \ tones :
               o.call = t.call /\ o.idx = t.idx /\ o.started = 1 /\ Len(o.stops) = 1]_vars
  /\ [][\A o \in tones : o \in tones']_vars
  /\ []<>Quiet

\* quiet again after a multi-tone cue that ran while another call and a toggle
\* were made
C14_Witness ==
  /\ Quiet
  /\ \E c \in CallIds : calls[c].type = "diskRead" /\ Cardinality(TonesOf(c)) = 8
  /\ Len(calls) = 2 /\ toggles # << >>

\* C15: the logout cue produces exactly one tone, its frequency set to 440 Hz at
\* creation and gliding linearly to 110 Hz by creation time + 0.5 s, its gain
\* envelope the usual one; no tone of another cue has a frequency ramp.
C15_LogoutGlide ==
  /\ \A c \in CallIds :
       (calls[c].enabled /\ calls[c].type = "logout") =>
         /\ Cardinality(TonesOf(c)) = 1
         /\ \A o \in TonesOf(c) :
              /\ o.freqEvents =
                   << [kind |-> "set", value |-> 440, at |-> o.createdAt],
                      [kind |-> "linRamp", value |-> 110, at |-> o.createdAt + 500] >>
              /\ o.gainEvents =
                   << [kind |-> "set", value |-> 200, at |-> o.createdAt],
                      [kind |-> "expRamp", value |-> 10, at |-> o.createdAt + 500] >>
  /\ \A o \in tones :
       calls[o.call].type # "logout" =>
         o.freqEvents = << [kind |-> "set", value |-> o.freq, at |-> o.createdAt] >>

\* a logout tone made after the clock has moved, next to a tone of another cue
C15_Witness ==
  /\ \E o \in tones : calls[o.call].type = "logout" /\ o.createdAt > 0
  /\ \E o \in tones : calls[o.call].type # "logout"

\* C16: for every tone of every cue the gain automation is the value 0.2 set at
\* the tone's creation time followed by one exponential ramp to 0.01 ending at
\* creation time plus the tone's duration; peak and floor are the same for all
\* cues and the ramp target is not above the peak.
C16_GainEnvelope ==
  \A o \in tones :
    /\ Len(o.gainEvents) = 2
    /\ o.gainEvents[1] = [kind |-> "set", value |-> 200, at |-> o.createdAt]
    /\ o.gainEvents[2] = [kind |-> "expRamp", value |-> 10, at |-> o.createdAt + o.dur]
    /\ o.gainEvents[2].value <= o.gainEvents[1].value
    /\ o.gainEvents[1].at <= o.gainEvents[2].at
    /\ o.dur \in { e.dur : e \in Documented(calls[o.call].type) }

\* tones of two cues and two durations, one of them created after the clock moved
C16_Witness ==
  /\ \E o \in tones : o.dur = 50
  /\ \E o \in tones : o.dur = 100 /\ o.createdAt > 0
  /\ Cardinality({ calls[o.call].type : o \in tones }) = 2

\* C17: the enabled flag is written only by toggleSound: a playSound call
\* (enabled or not, any cue), a timer callback and the creation, start and stop
\* of a tone leave every flag as it was.
C17_OnlyToggleWritesFlag ==
  [][ /\ isEnabled' # isEnabled =>
           /\ Len(toggles') = Len(toggles) + 1
           /\ calls' = calls /\ timers' = timers /\ tones' = tones
           /\ \A g \in Hooks : g # toggles'[Len(toggles')].hook => isEnabled'[g] = isEnabled[g]
      /\ (calls' # calls \/ timers' # timers \/ tones' # tones) => isEnabled' = isEnabled
    ]_vars

\* a flag is false, with an enabled and a disabled playSound call made and a
\* tone created by a timer callback
C17_Witness ==
  /\ \E h \in Hooks : ~isEnabled[h]
  /\ \E c, d \in CallIds : calls[c].enabled /\ ~calls[d].enabled
  /\ \E o \in tones : o.createdAt > calls[o.call].at

\* C18: playSound checks the gate and registers all entries of its cue in one
\* uninterrupted step, so every call yields either nothing or its whole recipe:
\* entries are pending or created, never lost, and a call that has no timer left
\* has no tone or all of them.
C18_AllOrNothing ==
  \A c \in CallIds :
    LET full == Cardinality(Documented(calls[c].type))
        made == Cardinality(TonesOf(c))
        left == Cardinality(TimersOf(c))
    IN /\ made + left \in {0, full}
       /\ made + left = full <=> (calls[c].enabled \/ full = 0)
       /\ left = 0 => made \in {0, full}
       /\ { o.idx : o \in TonesOf(c) } \cup { t.idx : t \in TimersOf(c) } \in { {}, 1..full }

\* a finished eight-tone cue whose hook was toggled twice while it ran, next to
\* a call that found the flag false
C18_Witness ==
  /\ \E c \in CallIds :
       /\ calls[c].type = "diskRead" /\ TimersOf(c) = {} /\ Cardinality(TonesOf(c)) = 8
       /\ Len(toggles) = 2
       /\ \A k \in 1..2 : toggles[k].hook = calls[c].hook /\ c \in toggles[k].pending
  /\ \E d \in CallIds : ~calls[d].enabled /\ TonesOf(d) = {}

SingleToneCues == {"error", "keypress", "logout"}

MultiToneCues == {"login", "search", "diskRead"}

\* the step just taken was an enabled playSound call of a cue in `cues`
EnabledPlayStep(cues) ==
  /\ Len(calls') = Len(calls) + 1
  /\ calls'[Len(calls')].enabled
  /\ calls'[Len(calls')].type \in cues

\* C19: a single-tone cue creates and starts its tone inside the playSound call;
\* a multi-tone cue creates even its delay-0 entry only in a later timer
\* callback, so none of its tones exists when playSound returns, and a
\* single-tone call made right after it has its tone first.
C19_SyncVersusDeferred ==
  /\ [][EnabledPlayStep(SingleToneCues) =>
          /\ timers' = timers
          /\ \E o \in tones' \ tones :
               /\ tones' = tones \cup {o}
               /\ o.call = Len(calls') /\ o.createdAt = now /\ o.started = 1]_vars
  /\ [][EnabledPlayStep(MultiToneCues) =>
          /\ tones' = tones
          /\ \E t \in timers' \ timers : t.call = Len(calls') /\ t.delay = 0 /\ t.due = now]_vars
  /\ [](\A c, d \in CallIds :
          ( /\ c < d /\ calls[c].enabled /\ calls[d].enabled
            /\ calls[c].type \in MultiToneCues /\ calls[d].type \in SingleToneCues
            /\ TonesOf(c) = {} )
          => /\ Cardinality(TonesOf(d)) = 1
             /\ \A t \in TimersOf(c) : \A o \in TonesOf(d) : o.createdAt <= t.due)

\* playSound('login') followed at once by playSound('error'): the error tone
\* exists, all three login entries are still timers
C19_Witness ==
  \E c, d \in CallIds :
    /\ c < d /\ calls[c].type = "login" /\ calls[d].type = "error"
    /\ calls[c].enabled /\ calls[d].enabled /\ calls[c].at = calls[d].at
    /\ TonesOf(c) = {} /\ Cardinality(TimersOf(c)) = 3
    /\ Cardinality(TonesOf(d)) = 1
====
